---- MODULE Spec2Model ----
(***************************************************************************)
(* MCP knowledge-base server: the session / credential registry and the    *)
(* request router of the two HTTP deployment targets.                      *)
(*                                                                         *)
(*   target = "worker"   handleMcpRequest          (src/unnamed/part_006)  *)
(*   target = "express"  app.post('/mcp', ...)     (src/src/mcp-server.js) *)
(*                                                                         *)
(* A request handler is an async function: it runs atomically from one     *)
(* await to the next, and handlers of different requests interleave at     *)
(* the awaits.  Each action below is one such synchronous segment.         *)
(***************************************************************************)
EXTENDS Naturals, Integers, Sequences, FiniteSets, TLC

\* ------------------------------------------------------------------ bounds
MaxReq == 2        \* request handlers in flight at the same time
NumIds == 2        \* session ids randomUUID can return before the model stops creating

MaxDocs == 2       \* document ids the store generates before the model stops uploading
MaxChunks == 1     \* chunks chunkText cuts a document into, at most
MaxCalls == 2      \* tool calls running on the store at the same time
MaxLen == 4        \* characters of a text handed to chunkText, at most
MaxWords == 2      \* the largest maxWords handed to chunkText
MaxFiles == 2      \* files a user hands to the FileUpload component

Reqs == 1..MaxReq
IdNames == <<"s1", "s2", "s3", "s4">>
SessionIds == {IdNames[n] : n \in 1..NumIds}

\* ------------------------------------------------------------ JS values
\* null / undefined: an absent header, an unset environment variable.
Absent == "<absent>"
Falsy(v) == v \in {Absent, ""}
Truthy(v) == ~Falsy(v)
\* a || b
Or(a, b) == IF Truthy(a) THEN a ELSE b

\* Names every plain object inherits from Object.prototype; the Express
\* registry is a plain object ({}), so transports[name] is truthy for them.
ObjectPrototypeKeys == {"constructor"}
Inherited == "<Object.prototype member>"

Triple(u, k, o) == [supabaseUrl |-> u, supabaseKey |-> k, openaiKey |-> o]
CredsOf(tag) == Triple(tag, tag, tag)
NoCreds == CredsOf(Absent)

\* Request headers and environments of the session specification: a request
\* carries no credential header or a full set; the environment is unset or
\* fully set (with other values than any header's).
Headers == {NoCreds, CredsOf("A")}
Envs == {NoCreds, CredsOf("E")}
\* Every header / environment combination, field by field (credential
\* resolution specification).
HeaderValues == {Absent, "", "h"}
EnvValues == {Absent, "", "e"}
AllHeaders == {Triple(u, k, o) : u \in HeaderValues, k \in HeaderValues, o \in HeaderValues}
AllEnvs == {Triple(u, k, o) : u \in EnvValues, k \in EnvValues, o \in EnvValues}

Methods == {"initialize", "tools/call"}
\* What a client may send as Mcp-Session-Id: nothing, an id the server may
\* generate (before or after it did), or the name of an inherited member (to
\* the worker's Map that is one more unknown id, and is left out).
ClientSessionIds(t) ==
  SessionIds \cup {Absent} \cup (IF t = "express" THEN ObjectPrototypeKeys ELSE {})
\* The credential headers a client sends; Express reads none of them.
ClientHeaders(t) == IF t = "express" THEN {NoCreds} ELSE Headers

VARIABLES
  target,              \* which deployment target runs
  env,                 \* env / process.env: the three credential variables
  pc,                  \* per request handler: where it is suspended
  req,                 \* per request handler: the request (session id header, body method, credential headers)
  local,               \* per request handler: newSessionId, transport, credentials; history: whether the session id it
                       \* carried was registered, and had been sent to a client, when it was looked up
  outcome,             \* per request handler: what transport.handleRequest did ("none": nothing yet)
  resp,                \* per request handler: the response sent
  toolCreds,           \* per request handler: the credentials its tool handler ran with
  transports,          \* the transport registry: session id -> transport object
  sessionCredentials,  \* session id -> credential triple (worker)
  extra,               \* transport object -> transport.extra.credentials
  nextTransport,       \* transport objects constructed so far, plus one
  generated,           \* ids randomUUID has returned
  issued,              \* history: id -> the transport constructed together with it
  createdWith,         \* history: id -> the credentials of the request that created it
  completed,           \* history: ids whose initialize handler returned normally
  nInitOk,             \* history: number of initialize handlers that returned normally
  exposed,             \* history: ids sent to a client in an Mcp-Session-Id response header
  documents,           \* the store's documents table: document id -> filename
  chunks,              \* the store's document_chunks table: document id -> number of its chunk rows
  nextDoc,             \* document ids the store has generated so far, plus one
  toolCall,            \* the last tool call: tool name and arguments
  toolResult,          \* the tool result returned for it
  storeOps,            \* the requests that call sent to the store, in order
  rpcMatchCount,       \* the match_count argument of the search_chunks rpc that call sent ({}: none sent)
  storeBefore,         \* history: the documents and chunks tables when that call arrived
  scenario,            \* history: progress of a get_files, upload, upload, get_files sequence
  inflight,            \* per concurrent tool call: the tool, where it is suspended, the document ids it holds
  deleted,             \* history: ids of the document rows deleted so far
  text,                \* chunkText: its argument text, a sequence of characters
  maxWords,            \* chunkText: its argument maxWords
  chunkList,           \* chunkText: the array it returned
  chunked,             \* chunkText: whether it has returned
  files                \* FileUpload: per file its queue item (status, error, progress) and its XMLHttpRequest

sessionVars == <<target, env, pc, req, local, outcome, resp, toolCreds,
                 transports, sessionCredentials, extra, nextTransport, generated,
                 issued, createdWith, completed, nInitOk, exposed>>
storeVars == <<documents, chunks, nextDoc, toolCall, toolResult, storeOps, rpcMatchCount,
               storeBefore, scenario, inflight, deleted>>
splitVars == <<text, maxWords, chunkList, chunked>>
toolVars == <<storeVars, splitVars, files>>
vars == <<sessionVars, toolVars>>

\* --------------------------------------------------------------- helpers
EmptyMap == [x \in {} |-> 0]
MapHas(m, k) == k \in DOMAIN m
MapSet(m, k, v) == [x \in DOMAIN m \cup {k} |-> IF x = k THEN v ELSE m[x]]

NoRequest == [sessionId |-> Absent, method |-> "initialize", headers |-> NoCreds]
NoLocal == [newSessionId |-> Absent, transport |-> 0, credentials |-> NoCreds,
            wasRegistered |-> FALSE, sawExposed |-> FALSE]
\* A response: status, Mcp-Session-Id header, the 401 body's missing list, the
\* body ("none": no response, "empty": a response without a body); written is
\* the status the transport left in mockRes (worker; 0: the handler never got there).
NoResponse == [status |-> 0, sessionHeader |-> Absent, missing |-> <<>>, body |-> "none",
               written |-> 0]

\* What a transport writes into mockRes: a status (writeHead / status) and its
\* data, an object (json) or a string (write / end).
DefaultWrite == [status |-> 200, data |-> "object"]
TransportWrites ==
  {[status |-> st, data |-> d] : st \in {200, 202, 400}, d \in {"object", "string"}}
\* JSON.stringify(responseData): an object's JSON text; a string in quotes.
JsonStringify(data) == IF data = "object" THEN "transport" ELSE "quoted"

isInitializeRequest(body) == body = "initialize"

\* randomUUID(): a version-4 UUID, 122 random bits; never one returned before.
randomUUIDColliding(gen) == SessionIds
randomUUID(gen) == SessionIds \ gen

\* ------------------------------------------------- credential resolution
\* const credentials = { supabaseUrl: headers.get(..) || env.SUPABASE_URL, ... }
ResolveEnvFirst(headers, e) ==
  Triple(Or(e.supabaseUrl, headers.supabaseUrl),
         Or(e.supabaseKey, headers.supabaseKey),
         Or(e.openaiKey, headers.openaiKey))
ResolveCredentials(headers, e) ==
  Triple(Or(headers.supabaseUrl, e.supabaseUrl),
         Or(headers.supabaseKey, e.supabaseKey),
         Or(headers.openaiKey, e.openaiKey))

\* if (!credentials.supabaseUrl || !credentials.supabaseKey || !credentials.openaiKey)
CredentialsMissing(credentials) ==
  \/ Falsy(credentials.supabaseUrl)
  \/ Falsy(credentials.supabaseKey)
  \/ Falsy(credentials.openaiKey)

\* const missing = []; if (!credentials.x) missing.push('x-...'); three times
MissingFirstOnly(credentials) ==
  IF Falsy(credentials.supabaseUrl) THEN <<"x-supabase-url">>
  ELSE IF Falsy(credentials.supabaseKey) THEN <<"x-supabase-key">>
  ELSE IF Falsy(credentials.openaiKey) THEN <<"x-openai-key">>
  ELSE <<>>
Missing(credentials) ==
  (IF Falsy(credentials.supabaseUrl) THEN <<"x-supabase-url">> ELSE <<>>)
  \o (IF Falsy(credentials.supabaseKey) THEN <<"x-supabase-key">> ELSE <<>>)
  \o (IF Falsy(credentials.openaiKey) THEN <<"x-openai-key">> ELSE <<>>)

\* if (sessionId) sessionCredentials.set(sessionId, credentials)
TouchKeepFirst(map, sessionId, credentials) ==
  IF Truthy(sessionId) /\ ~MapHas(map, sessionId)
  THEN MapSet(map, sessionId, credentials) ELSE map
TouchCredentials(map, sessionId, credentials) ==
  IF Truthy(sessionId) THEN MapSet(map, sessionId, credentials) ELSE map

\* The 401 response is returned before the sessionCredentials.set statement: a
\* request that fails validation stores nothing.
StoreBeforeValidation(map, sessionId, credentials) ==
  TouchCredentials(map, sessionId, credentials)
StoreOnRejection(map, sessionId, credentials) == map

\* transports.set(newSessionId, transport) / transports[newSessionId] = transport
RegistryReplace(reg, newSessionId, transport) ==
  [x \in {newSessionId} |-> transport]
RegistryStore(reg, newSessionId, transport) ==
  MapSet(reg, newSessionId, transport)

\* ---------------------------------------------------------------- routing
\* worker: transports.has(sessionId) on a Map
WorkerLookup(reg, sessionId) ==
  IF MapHas(reg, sessionId) THEN "transport" ELSE "undefined"
\* express: transports[sessionId] on a plain object
ExpressLookup(reg, sessionId) ==
  IF MapHas(reg, sessionId) THEN "transport"
  ELSE IF sessionId \in ObjectPrototypeKeys THEN Inherited
  ELSE "undefined"

\* The if-chain of both handlers:
\*   if (sessionId && <registry has it>)            reuse the transport
\*   if (!sessionId && isInitializeRequest(body))   create a session
\*   otherwise                                      400
RouteInitFirst(sessionId, body, found) ==
  IF isInitializeRequest(body) THEN "create"
  ELSE IF Truthy(sessionId) /\ found # "undefined" THEN "reuse"
  ELSE "invalid"
RouteNoSessionCreates(sessionId, body, found) ==
  IF Truthy(sessionId) /\ found # "undefined" THEN "reuse"
  ELSE IF Falsy(sessionId) THEN "create"
  ELSE "invalid"
Route(sessionId, body, found) ==
  IF Truthy(sessionId) /\ found # "undefined" THEN "reuse"
  ELSE IF Falsy(sessionId) /\ isInitializeRequest(body) THEN "create"
  ELSE "invalid"

\* ------------------------------------------------------ tool credentials
ProcessEnv == env
\* getSessionCredentials(sessionId, sessionCredentialsMap)
getSessionCredentials(sessionId, hasMap) ==
  IF hasMap /\ MapHas(sessionCredentials, sessionId)
  THEN sessionCredentials[sessionId] ELSE ProcessEnv
\* The extra argument of a tool handler running on transport t: the SDK builds
\* it, and either carries the fields the router put in transport.extra or
\* carries only the session id.
HandlerExtra(t, sessionId, carried) ==
  IF carried
  THEN [hasCredentials |-> TRUE, credentials |-> extra[t], hasMap |-> TRUE, sessionId |-> sessionId]
  ELSE [hasCredentials |-> FALSE, credentials |-> NoCreds, hasMap |-> FALSE, sessionId |-> sessionId]
\* const credentials = extra.credentials || getSessionCredentials(extra.sessionId, extra.sessionCredentialsMap)
ToolCredentials(ex) ==
  IF ex.hasCredentials THEN ex.credentials
  ELSE getSessionCredentials(ex.sessionId, ex.hasMap)

\* ------------------------------------------------------------- tool layer
\* The store: documents (id UUID DEFAULT gen_random_uuid(), filename TEXT NOT
\* NULL, no uniqueness on filename) and document_chunks (document_id
\* REFERENCES documents(id) ON DELETE CASCADE).
DocIdNames == <<"d1", "d2", "d3", "d4">>
DocIds == {DocIdNames[n] : n \in 1..MaxDocs}
Filenames == {"a.txt", "b.txt"}
FilePaths == {"/x/a.txt", "/y/a.txt", "/x/b.txt"}
\* path.basename(file_path)
basename(file_path) == IF file_path = "/x/b.txt" THEN "b.txt" ELSE "a.txt"
\* match_count = 5 / z.number().default(5)
DefaultMatchCount == 5

MapRemove(m, ks) == [x \in DOMAIN m \ ks |-> m[x]]
Min(a, b) == IF a < b THEN a ELSE b
RECURSIVE SumOver(_, _)
SumOver(f, ks) ==
  IF ks = {} THEN 0
  ELSE LET k == CHOOSE x \in ks : TRUE IN f[k] + SumOver(f, ks \ {k})

EmptyStore == [documents |-> EmptyMap, chunks |-> EmptyMap]
\* The store as the tools may find it: empty, or holding a document uploaded before.
InitialStores ==
  {EmptyStore, [documents |-> [d \in {"d1"} |-> "a.txt"], chunks |-> [d \in {"d1"} |-> 1]]}

\* A tool call: the tool's name and its arguments (Absent: not supplied;
\* match_count is {} when omitted and {n} when supplied), and the collaborator
\* failure it met; for an upload, the uploadDocument implementation the
\* import of './tools/upload-document.js' resolved to and the number of chunks
\* chunkText returned.
NoCall == [tool |-> "none", filename |-> Absent, id |-> Absent, document_ids |-> {},
           file_path |-> Absent, match_count |-> {}, fault |-> "none",
           impl |-> "none", split |-> 0]
\* "node": upload-document-node.js, reached through the selecting module;
\* "combined": upload-document.js holding the whole function itself.
UploadImplementations == {"node", "combined"}
\* The match_count values a client supplies.
MatchCounts == {{}, {0}, {1}}
\* z.number().default(5) and searchChunks({ query, match_count = 5 }): the
\* default replaces an omitted argument only, never a supplied 0.
MatchCountOrDefault(match_count) ==
  IF match_count = {} \/ match_count = {0} THEN DefaultMatchCount
  ELSE CHOOSE n \in match_count : TRUE
MatchCountInEffect(match_count) ==
  IF match_count = {} THEN DefaultMatchCount ELSE CHOOSE n \in match_count : TRUE
\* The object a tool function returns.
NoPayload == [success |-> "absent", error |-> "", id |-> Absent, filename |-> Absent,
              count |-> 0, chunks_created |-> 0, total_chunks |-> 0]
Success == [NoPayload EXCEPT !.success = "true"]
\* return { success: false, error: error.message }
Failure(message) == [NoPayload EXCEPT !.success = "false", !.error = message]
\* How a tool function ends: it returns an object or throws an Error.
ToolReturn(payload) == [threw |-> FALSE, message |-> "", payload |-> payload]
ToolThrow(message) == [threw |-> TRUE, message |-> message, payload |-> NoPayload]

\* The tool result: content[0].text is "Error: " + message when isError, and
\* JSON.stringify(result) of the payload otherwise; escaped: an exception left
\* the handler.
NoResult == [isError |-> FALSE, prefix |-> "", message |-> "", payload |-> NoPayload,
             escaped |-> FALSE]
\* Every handler: try { result = await tool(..); return { content: [JSON] } }
\*                catch (error) { return { content: ["Error: ..."], isError: true } }
HandlerResult(ret) ==
  IF ret.threw
  THEN [NoResult EXCEPT !.isError = TRUE, !.prefix = "Error: ", !.message = ret.message]
  ELSE [NoResult EXCEPT !.payload = ret.payload]

\* mcp-server.js hands { filename, id } to getDocument and deleteDocument; the
\* shared definition hands { document_id, credentials }, which neither reads.
PassedFilename(call) == IF target = "express" THEN call.filename ELSE Absent
PassedId(call) == IF target = "express" THEN call.id ELSE Absent

\* getDocument: if (filename) query.eq('filename', ..) else if (id) query.eq('id', ..)
GetDocumentMatches(docs, filename, id) ==
  IF Truthy(filename) THEN {d \in DOMAIN docs : docs[d] = filename}
  ELSE {d \in DOMAIN docs : d = id}
\* deleteDocument: if (id) query.eq('id', ..) else if (filename) query.eq('filename', ..)
DeleteDocumentMatches(docs, filename, id) ==
  IF Truthy(id) THEN {d \in DOMAIN docs : d = id}
  ELSE {d \in DOMAIN docs : docs[d] = filename}
\* if (!documents || documents.length === 0) throw new Error('Document not found')
NotFoundNever(matches) == FALSE
NotFound(matches) == matches = {}
\* if (!document_ids || !Array.isArray(document_ids) || document_ids.length === 0)
DocumentIdsAccepted(document_ids) == FALSE
DocumentIdsInvalid(document_ids) == document_ids = {}
\* .from('documents').insert({ filename, content, .. }): a new row under a new id
\* (gen_random_uuid(): never an id generated before)
StoreNewId(n) == DocIdNames[n]
InsertReplacingFilename(docs, id, filename) ==
  MapSet(MapRemove(docs, {d \in DOMAIN docs : docs[d] = filename}), id, filename)
InsertDocument(docs, id, filename) == MapSet(docs, id, filename)

\* Progress of the sequence get_files, upload_document, upload_document (another
\* file_path), get_files, with no other tool call in between.
NoScenario == [stage |-> 0, base |-> 0, id1 |-> Absent, path1 |-> Absent, id2 |-> Absent,
               final |-> 0]
Observe(sc, call, result) ==
  LET uploaded == call.tool = "upload_document" /\ ~result.isError
                    /\ result.payload.success = "true"
  IN
  IF call.tool = "get_files" /\ ~result.isError THEN
    IF sc.stage = 3 THEN [sc EXCEPT !.stage = 4, !.final = result.payload.count]
    ELSE [NoScenario EXCEPT !.stage = 1, !.base = result.payload.count]
  ELSE IF uploaded /\ sc.stage = 1 THEN
    [sc EXCEPT !.stage = 2, !.id1 = result.payload.id, !.path1 = call.file_path]
  ELSE IF uploaded /\ sc.stage = 2 /\ call.file_path # sc.path1 THEN
    [sc EXCEPT !.stage = 3, !.id2 = result.payload.id]
  ELSE NoScenario

\* ------------------------------------------------------------------- Init
SessionInit(ts, es) ==
  /\ target \in ts
  /\ env \in es
  /\ pc = [r \in Reqs |-> "idle"]
  /\ req = [r \in Reqs |-> NoRequest]
  /\ local = [r \in Reqs |-> NoLocal]
  /\ outcome = [r \in Reqs |-> "none"]
  /\ resp = [r \in Reqs |-> NoResponse]
  /\ toolCreds = [r \in Reqs |-> NoCreds]
  /\ transports = EmptyMap
  /\ sessionCredentials = EmptyMap
  /\ extra = EmptyMap
  /\ nextTransport = 1
  /\ generated = {}
  /\ issued = EmptyMap
  /\ createdWith = EmptyMap
  /\ completed = {}
  /\ nInitOk = 0
  /\ exposed = {}

\* Tool calls that run concurrently, and a call that is not running.
Calls == 1..MaxCalls
IdleCall == [tool |-> "none", pc |-> "idle", ids |-> {}, left |-> 0, refused |-> FALSE]

\* chunkText before it is called with one of the given arguments.
SplitInit(texts, sizes) ==
  /\ text \in texts
  /\ maxWords \in sizes
  /\ chunkList = <<>>
  /\ chunked = FALSE

\* const [files, setFiles] = useState([])
Files == 1..MaxFiles
NoFile == [status |-> "none", error |-> "", progress |-> 0, xhr |-> "unsent", http |-> 0]
QueueInit == files = [f \in Files |-> NoFile]

\* The store and the tool layer before any tool call.
ToolInit(stores) ==
  /\ \E st \in stores :
       /\ documents = st.documents
       /\ chunks = st.chunks
       /\ nextDoc = Cardinality(DOMAIN st.documents) + 1
       /\ storeBefore = st
  /\ toolCall = NoCall
  /\ toolResult = NoResult
  /\ storeOps = <<>>
  /\ rpcMatchCount = {}
  /\ scenario = NoScenario
  /\ inflight = [c \in Calls |-> IdleCall]
  /\ deleted = {}

StoreInit(stores) == ToolInit(stores) /\ SplitInit({<<>>}, {1}) /\ QueueInit

InitWith(ts, es) == SessionInit(ts, es) /\ StoreInit({EmptyStore})

Init == InitWith({"worker", "express"}, Envs)

\* ---------------------------------------------------------------- actions
\* Each action is one synchronous segment of a handler.  The request is drawn
\* when its handler starts: nothing shared is read before the body is there.
Respond(r, response) ==
  /\ resp' = [resp EXCEPT ![r] = response]
  /\ pc' = [pc EXCEPT ![r] = "done"]

\* The handler's locals when it starts, with what the lookup of its session id met.
Started(sessionId) ==
  [NoLocal EXCEPT !.wasRegistered = MapHas(transports, sessionId),
                  !.sawExposed = sessionId \in exposed]

\* The same, with the credentials the worker handler resolved (const credentials).
StartedWith(sessionId, credentials) ==
  [Started(sessionId) EXCEPT !.credentials = credentials]

Error400 == [NoResponse EXCEPT !.status = 400, !.body = "invalid"]
Error500 == [NoResponse EXCEPT !.status = 500, !.body = "error"]

\* The worker handler's branch: the credential check and its 401 return come
\* before every routing condition.
RouteBeforeValidation(credentials, kind) ==
  IF kind = "invalid" THEN kind
  ELSE IF CredentialsMissing(credentials) THEN "reject" ELSE kind
ValidateThenRoute(credentials, kind) ==
  IF CredentialsMissing(credentials) THEN "reject" ELSE kind

\* worker, from the end of await request.json() to the next await or return:
\* resolve and validate the credentials, store them under the request's
\* session id, then route.
WorkerRouteFrom(r, headerSet) ==
  /\ target = "worker"
  /\ pc[r] = "idle"
  /\ \E sessionId \in ClientSessionIds(target), body \in Methods, headers \in headerSet :
     LET credentials == ResolveCredentials(headers, env)
         kind == ValidateThenRoute(credentials,
                                   Route(sessionId, body, WorkerLookup(transports, sessionId)))
     IN
     /\ req' = [req EXCEPT ![r] = [sessionId |-> sessionId, method |-> body,
                                   headers |-> headers]]
     /\ IF kind = "reject" THEN
          /\ local' = [local EXCEPT ![r] = StartedWith(sessionId, credentials)]
          /\ Respond(r, [NoResponse EXCEPT !.status = 401, !.body = "missing",
                                           !.missing = Missing(credentials)])
          /\ sessionCredentials' = StoreOnRejection(sessionCredentials, sessionId, credentials)
          /\ UNCHANGED <<transports, extra, nextTransport, generated, issued, createdWith>>
        ELSE IF kind = "reuse" THEN
          \* transport.extra = { ...transport.extra, credentials, ... };
          \* await transport.handleRequest(mockReq, mockRes, body)
          /\ sessionCredentials' = TouchCredentials(sessionCredentials, sessionId, credentials)
          /\ extra' = MapSet(extra, transports[sessionId], credentials)
          /\ local' = [local EXCEPT ![r] =
                         [StartedWith(sessionId, credentials) EXCEPT !.transport = transports[sessionId]]]
          /\ pc' = [pc EXCEPT ![r] = "reuse_handle"]
          /\ UNCHANGED <<resp, transports, nextTransport, generated, issued, createdWith>>
        ELSE IF kind = "create" THEN
          \* const newSessionId = randomUUID(); new StreamableHTTPServerTransport(..);
          \* transport.extra = { credentials, ... }; await server.connect(transport)
          /\ nextTransport <= NumIds
          /\ \E newSessionId \in randomUUID(generated) :
               /\ local' = [local EXCEPT ![r] =
                              [StartedWith(sessionId, credentials) EXCEPT !.newSessionId = newSessionId,
                                                         !.transport = nextTransport]]
               /\ generated' = generated \cup {newSessionId}
               /\ issued' = MapSet(issued, newSessionId, nextTransport)
               /\ createdWith' = MapSet(createdWith, newSessionId, credentials)
          /\ extra' = MapSet(extra, nextTransport, credentials)
          /\ nextTransport' = nextTransport + 1
          /\ sessionCredentials' = TouchCredentials(sessionCredentials, sessionId, credentials)
          /\ pc' = [pc EXCEPT ![r] = "connect"]
          /\ UNCHANGED <<resp, transports>>
        ELSE
          /\ sessionCredentials' = TouchCredentials(sessionCredentials, sessionId, credentials)
          /\ local' = [local EXCEPT ![r] = StartedWith(sessionId, credentials)]
          /\ Respond(r, Error400)
          /\ UNCHANGED <<transports, extra, nextTransport, generated, issued, createdWith>>
  /\ UNCHANGED <<toolVars, target, env, outcome, toolCreds, completed, nInitOk, exposed>>

WorkerRoute(r) == WorkerRouteFrom(r, ClientHeaders(target))

\* worker, after await server.connect(transport): store the transport and the
\* credentials, then await transport.handleRequest(mockReq, mockRes, body).
WorkerConnected(r) ==
  /\ target = "worker"
  /\ pc[r] = "connect"
  /\ transports' = RegistryStore(transports, local[r].newSessionId, local[r].transport)
  /\ sessionCredentials' = MapSet(sessionCredentials, local[r].newSessionId,
                                  ResolveCredentials(req[r].headers, env))
  /\ pc' = [pc EXCEPT ![r] = "create_handle"]
  /\ UNCHANGED <<toolVars, target, env, req, local, outcome, resp, toolCreds, extra, nextTransport,
                 generated, issued, createdWith, completed, nInitOk, exposed>>

\* worker, transport.handleRequest and what follows it.  The server processes
\* the message (a tools/call runs its tool handler, which reads its
\* credentials); the transport writes a response into mockRes, writes nothing,
\* or fails; then the handler returns the Response, or the catch block's 500.
\* Nothing another handler can see changes in between, so this is one step.
WorkerHandledWith(r, writes) ==
  /\ target = "worker"
  /\ pc[r] \in {"reuse_handle", "create_handle"}
  /\ \E o \in {"wrote", "silent", "throw"}, carried \in BOOLEAN, w \in writes :
     LET id == IF pc[r] = "reuse_handle" THEN req[r].sessionId ELSE local[r].newSessionId
         created == pc[r] = "create_handle" /\ o # "throw"
     IN
     /\ outcome' = [outcome EXCEPT ![r] = o]
     /\ toolCreds' =
          IF o = "wrote" /\ req[r].method = "tools/call"
          THEN [toolCreds EXCEPT ![r] =
                  ToolCredentials(HandlerExtra(local[r].transport, req[r].sessionId, carried))]
          ELSE toolCreds
     /\ IF o = "throw"
        THEN Respond(r, Error500)
        ELSE Respond(r, [NoResponse EXCEPT !.status = 200, !.sessionHeader = id,
                           !.written = w.status,
                           !.body = IF o = "wrote" THEN JsonStringify(w.data) ELSE "empty"])
     /\ exposed' = IF o = "throw" THEN exposed ELSE exposed \cup {id}
     /\ completed' = IF created THEN completed \cup {id} ELSE completed
     /\ nInitOk' = IF created THEN nInitOk + 1 ELSE nInitOk
  /\ UNCHANGED <<toolVars, target, env, req, local, transports, sessionCredentials, extra,
                 nextTransport, generated, issued, createdWith>>

WorkerHandled(r) == WorkerHandledWith(r, {DefaultWrite})

\* express, the handler up to its first await or its response.
ExpressRoute(r) ==
  /\ target = "express"
  /\ pc[r] = "idle"
  /\ \E sessionId \in ClientSessionIds(target), body \in Methods,
        headers \in ClientHeaders(target) :
     LET found == ExpressLookup(transports, sessionId)
         kind == Route(sessionId, body, found)
     IN
     /\ req' = [req EXCEPT ![r] = [sessionId |-> sessionId, method |-> body,
                                   headers |-> headers]]
     /\ IF kind = "reuse" /\ found = Inherited THEN
          \* transport is an inherited member and transport.handleRequest is
          \* not a function: a TypeError, caught by the catch block
          /\ local' = [local EXCEPT ![r] = Started(sessionId)]
          /\ Respond(r, Error500)
          /\ UNCHANGED <<nextTransport, generated, issued, createdWith>>
        ELSE IF kind = "reuse" THEN
          \* await transport.handleRequest(req, res, req.body)
          /\ local' = [local EXCEPT ![r] =
                         [Started(sessionId) EXCEPT !.transport = transports[sessionId]]]
          /\ pc' = [pc EXCEPT ![r] = "reuse_handle"]
          /\ UNCHANGED <<resp, nextTransport, generated, issued, createdWith>>
        ELSE IF kind = "create" THEN
          \* const newSessionId = randomUUID(); new StreamableHTTPServerTransport(..);
          \* await server.connect(transport)
          /\ nextTransport <= NumIds
          /\ \E newSessionId \in randomUUID(generated) :
               /\ local' = [local EXCEPT ![r] =
                              [Started(sessionId) EXCEPT !.newSessionId = newSessionId,
                                                         !.transport = nextTransport]]
               /\ generated' = generated \cup {newSessionId}
               /\ issued' = MapSet(issued, newSessionId, nextTransport)
               /\ createdWith' = MapSet(createdWith, newSessionId, ProcessEnv)
          /\ nextTransport' = nextTransport + 1
          /\ pc' = [pc EXCEPT ![r] = "connect"]
          /\ UNCHANGED resp
        ELSE
          /\ local' = [local EXCEPT ![r] = Started(sessionId)]
          /\ Respond(r, Error400)
          /\ UNCHANGED <<nextTransport, generated, issued, createdWith>>
  /\ UNCHANGED <<toolVars, target, env, outcome, toolCreds, transports, sessionCredentials, extra,
                 completed, nInitOk, exposed>>

\* express, after await server.connect(transport):
\* res.setHeader('Mcp-Session-Id', newSessionId); await transport.handleRequest(..)
ExpressConnected(r) ==
  /\ target = "express"
  /\ pc[r] = "connect"
  /\ pc' = [pc EXCEPT ![r] = "create_handle"]
  /\ UNCHANGED <<toolVars, target, env, req, local, outcome, resp, toolCreds, transports,
                 sessionCredentials, extra, nextTransport, generated, issued,
                 createdWith, completed, nInitOk, exposed>>

\* express, inside transport.handleRequest: the server processes the message
\* (the tools run with the module-level clients, made from process.env) and
\* the transport writes the response to res, which sends it to the client with
\* the headers set on res before.
ExpressTransportWrites(r) ==
  /\ target = "express"
  /\ pc[r] \in {"reuse_handle", "create_handle"}
  /\ outcome[r] = "none"
  /\ outcome' = [outcome EXCEPT ![r] = "wrote"]
  /\ toolCreds' = IF req[r].method = "tools/call" /\ pc[r] = "reuse_handle"
                  THEN [toolCreds EXCEPT ![r] = ProcessEnv] ELSE toolCreds
  /\ resp' = [resp EXCEPT ![r] =
               [NoResponse EXCEPT !.status = 200, !.body = "transport",
                                  !.sessionHeader = local[r].newSessionId]]
  /\ exposed' = exposed \cup ({local[r].newSessionId} \ {Absent})
  /\ UNCHANGED <<toolVars, target, env, pc, req, local, transports, sessionCredentials, extra,
                 nextTransport, generated, issued, createdWith, completed, nInitOk>>

\* express, after await transport.handleRequest(..), which wrote the response,
\* wrote nothing, or failed.  An initialize handler now stores the transport;
\* a failure goes to the catch block, whose 500 leaves on res the
\* Mcp-Session-Id header set before.
ExpressReturn(r) ==
  /\ target = "express"
  /\ pc[r] \in {"reuse_handle", "create_handle"}
  /\ \E o \in (IF outcome[r] = "wrote" THEN {"wrote"} ELSE {"silent", "throw"}) :
     /\ outcome' = [outcome EXCEPT ![r] = o]
     /\ IF o = "throw" THEN
          /\ Respond(r, [Error500 EXCEPT !.sessionHeader = local[r].newSessionId])
          /\ exposed' = exposed \cup ({local[r].newSessionId} \ {Absent})
          /\ UNCHANGED <<transports, completed, nInitOk>>
        ELSE IF pc[r] = "create_handle" THEN
          \* transports[newSessionId] = transport
          /\ transports' = RegistryStore(transports, local[r].newSessionId, local[r].transport)
          /\ completed' = completed \cup {local[r].newSessionId}
          /\ nInitOk' = nInitOk + 1
          /\ pc' = [pc EXCEPT ![r] = "done"]
          /\ UNCHANGED <<resp, exposed>>
        ELSE
          /\ pc' = [pc EXCEPT ![r] = "done"]
          /\ UNCHANGED <<resp, exposed, transports, completed, nInitOk>>
  /\ UNCHANGED <<toolVars, target, env, req, local, toolCreds, sessionCredentials, extra,
                 nextTransport, generated, issued, createdWith>>

\* The request is over: its handler's locals are gone.
Deliver(r) ==
  /\ pc[r] = "done"
  /\ pc' = [pc EXCEPT ![r] = "idle"]
  /\ req' = [req EXCEPT ![r] = NoRequest]
  /\ local' = [local EXCEPT ![r] = NoLocal]
  /\ outcome' = [outcome EXCEPT ![r] = "none"]
  /\ resp' = [resp EXCEPT ![r] = NoResponse]
  /\ toolCreds' = [toolCreds EXCEPT ![r] = NoCreds]
  /\ UNCHANGED <<toolVars, target, env, transports, sessionCredentials, extra, nextTransport,
                 generated, issued, createdWith, completed, nInitOk, exposed>>

Next ==
  \E r \in Reqs :
    \/ WorkerRoute(r)
    \/ WorkerConnected(r)
    \/ WorkerHandled(r)
    \/ ExpressRoute(r)
    \/ ExpressConnected(r)
    \/ ExpressTransportWrites(r)
    \/ ExpressReturn(r)
    \/ Deliver(r)

Spec == Init /\ [][Next]_vars

\* Credential resolution alone: one request at a time, every header and
\* environment combination, through the worker handler's resolve-and-validate
\* segment.
InitResolve == InitWith({"worker"}, AllEnvs)

NextResolve ==
  \/ WorkerRouteFrom(1, AllHeaders)
  \/ Deliver(1)

SpecResolve == InitResolve /\ [][NextResolve]_vars

\* The Express target alone.
InitExpress == InitWith({"express"}, Envs)

NextExpress ==
  \E r \in Reqs :
    \/ ExpressRoute(r)
    \/ ExpressConnected(r)
    \/ ExpressTransportWrites(r)
    \/ ExpressReturn(r)
    \/ Deliver(r)

SpecExpress == InitExpress /\ [][NextExpress]_vars

\* The worker's relay of the transport's response alone: one request at a
\* time, every status and kind of data the transport may leave in mockRes.
InitRelay == InitWith({"worker"}, Envs)

NextRelay ==
  \/ WorkerRoute(1)
  \/ WorkerConnected(1)
  \/ WorkerHandledWith(1, TransportWrites)
  \/ Deliver(1)

SpecRelay == InitRelay /\ [][NextRelay]_vars

\* ------------------------------------------------------------ tool calls
\* A tool call runs its handler to the end: the tool function's store and
\* collaborator requests, then the handler's return.
ToolDone(call, ret, ops, docs, chs, nd) ==
  /\ toolCall' = call
  /\ toolResult' = HandlerResult(ret)
  /\ storeOps' = ops
  \* supabaseClient.rpc('search_chunks', { query_embedding, match_count: match_count, .. })
  /\ rpcMatchCount' = IF \E n \in 1..Len(ops) : ops[n] = "rpc"
                      THEN {MatchCountInEffect(call.match_count)} ELSE {}
  /\ storeBefore' = [documents |-> documents, chunks |-> chunks]
  /\ documents' = docs
  /\ chunks' = chs
  /\ nextDoc' = nd
  /\ scenario' = Observe(scenario, call, HandlerResult(ret))
  /\ UNCHANGED <<sessionVars, inflight, deleted, splitVars, files>>

\* The call left the store as it was.
ToolFailed(call, ret, ops) == ToolDone(call, ret, ops, documents, chunks, nextDoc)

\* The chunk loop of upload-document-node.js: each chunk's embedding and
\* insert run inside try/catch, a failed chunk is logged and not counted.
\* Result: <<success, chunks_created, total_chunks>>.
ChunkLoopCounting(fault, total, stored) == <<TRUE, stored, total>>
\* The chunk loop of upload-document.js: an insert error is logged only, a
\* throwing embedding call rejects Promise.all and reaches the outer catch;
\* chunks_created is chunks.length and there is no total_chunks.
ChunkLoopUncounted(fault, total, stored) == <<fault # "embedding", total, 0>>
ChunkLoop(impl, fault, total, stored) ==
  IF impl = "node" THEN ChunkLoopCounting(fault, total, stored)
  ELSE ChunkLoopUncounted(fault, total, stored)

\* upload_document -> uploadDocument({ file_path }): read the file, insert the
\* document row, chunk the content, embed and insert each chunk; every error
\* is caught inside and returned as { success: false }.  The worker build's
\* uploadDocument wants file_data (and original_filename), which the tool does
\* not pass.  fault "embedding": generateEmbedding threw for a chunk; "chunk":
\* the insert of a chunk returned an error.
UploadDocument ==
  \E file_path \in FilePaths, impl \in UploadImplementations,
     fault \in {"none", "file", "store", "embedding", "chunk"},
     total \in 1..MaxChunks, stored \in 0..MaxChunks :
    LET call == [NoCall EXCEPT !.tool = "upload_document", !.file_path = file_path,
                               !.impl = impl, !.fault = fault, !.split = total]
    IN
    /\ stored <= total
    /\ (fault \in {"embedding", "chunk"}) = (stored < total)
    /\ IF target = "worker" THEN
         /\ fault = "none" /\ stored = total
         /\ ToolFailed([call EXCEPT !.split = 0],
                       ToolReturn(Failure("file_data is required")), <<>>)
       ELSE IF fault = "file" THEN
         ToolFailed([call EXCEPT !.split = 0], ToolReturn(Failure("read failed")), <<>>)
       ELSE IF fault = "store" THEN
         ToolFailed([call EXCEPT !.split = 0],
                    ToolReturn(Failure("Failed to store document")), <<"insert">>)
       ELSE
         /\ nextDoc <= MaxDocs
         /\ LET id == StoreNewId(nextDoc)
                filename == basename(file_path)
                loop == ChunkLoop(impl, fault, total, stored)
            IN ToolDone(call,
                        IF loop[1]
                        THEN ToolReturn([Success EXCEPT !.id = id, !.filename = filename,
                                                        !.chunks_created = loop[2],
                                                        !.total_chunks = loop[3]])
                        ELSE ToolReturn(Failure("embedding failed")),
                        <<"insert">>,
                        InsertDocument(documents, id, filename),
                        MapSet(chunks, id, stored),
                        nextDoc + 1)

\* search_chunks -> searchChunks({ query, match_count }): embed the query, call
\* the store's search_chunks function; every error is caught inside and
\* returned as { success: false, results: [] }.
SearchChunks ==
  \E match_count \in MatchCounts, fault \in {"none", "embedding", "store"},
     similar \in 0..SumOver(chunks, DOMAIN chunks) :
    LET call == [NoCall EXCEPT !.tool = "search_chunks", !.match_count = match_count,
                               !.fault = fault]
        \* the store function's LIMIT match_count
        limit == MatchCountInEffect(match_count)
    IN
    IF fault = "embedding" THEN
      ToolFailed(call, ToolReturn(Failure("embedding failed")), <<>>)
    ELSE IF fault = "store" THEN
      ToolFailed(call, ToolReturn(Failure("Search failed")), <<"rpc">>)
    ELSE
      ToolFailed(call, ToolReturn([Success EXCEPT !.count = Min(limit, similar)]), <<"rpc">>)

\* get_files -> getFiles(): select every document; an error is thrown.
GetFiles ==
  \E fault \in {"none", "store"} :
    LET call == [NoCall EXCEPT !.tool = "get_files", !.fault = fault] IN
    IF fault = "store" THEN
      ToolFailed(call, ToolThrow("Failed to get files"), <<"select">>)
    ELSE
      ToolFailed(call, ToolReturn([NoPayload EXCEPT !.count = Cardinality(DOMAIN documents)]),
                 <<"select">>)

\* The arguments a client gives get_document / delete_document: filename and id,
\* both optional (mcp-server.js); document_id (shared definition).
ClientFilenames == IF target = "express" THEN Filenames \cup {Absent} ELSE {Absent}
ClientDocIds == IF target = "express" THEN DocIds \cup {Absent} ELSE DocIds

\* get_document -> getDocument({ filename, id }): select by filename, else by
\* id, .single(); every error is caught inside and returned as { success: false }.
GetDocument ==
  \E filename \in ClientFilenames, id \in ClientDocIds, fault \in {"none", "store"} :
    LET call == [NoCall EXCEPT !.tool = "get_document", !.filename = filename, !.id = id]
        f == PassedFilename(call)
        i == PassedId(call)
        matches == GetDocumentMatches(documents, f, i)
    IN
    IF Falsy(f) /\ Falsy(i) THEN
      ToolFailed(call, ToolReturn(Failure("Either filename or id must be provided")), <<>>)
    ELSE IF fault = "store" \/ Cardinality(matches) # 1 THEN
      ToolFailed([call EXCEPT !.fault = fault],
                 ToolReturn(Failure("Failed to get document")), <<"select">>)
    ELSE
      \E d \in matches :
        ToolFailed(call, ToolReturn([Success EXCEPT !.id = d, !.filename = documents[d]]),
                   <<"select">>)

\* delete_document -> deleteDocument({ filename, id }): find by id, else by
\* filename; delete the first document found (its chunks go with it); every
\* error is thrown.
DeleteDocument ==
  \E filename \in ClientFilenames, id \in ClientDocIds,
     fault \in {"none", "store", "store_delete"} :
    LET call == [NoCall EXCEPT !.tool = "delete_document", !.filename = filename, !.id = id]
        f == PassedFilename(call)
        i == PassedId(call)
        matches == DeleteDocumentMatches(documents, f, i)
    IN
    IF Falsy(i) /\ Falsy(f) THEN
      ToolFailed(call, ToolThrow("Either id or filename must be provided"), <<>>)
    ELSE IF fault = "store" THEN
      ToolFailed([call EXCEPT !.fault = fault], ToolThrow("Failed to find document"),
                 <<"select">>)
    ELSE IF NotFound(matches) THEN
      ToolFailed(call, ToolThrow("Document not found"), <<"select">>)
    ELSE IF fault = "store_delete" THEN
      ToolFailed([call EXCEPT !.fault = fault], ToolThrow("Failed to delete document"),
                 <<"select", "delete">>)
    ELSE
      \E d \in (IF matches = {} THEN {Absent} ELSE matches) :
        ToolDone(call,
                 ToolReturn([Success EXCEPT !.id = d,
                               !.filename = IF MapHas(documents, d) THEN documents[d] ELSE Absent]),
                 <<"select", "delete">>,
                 MapRemove(documents, {d}), MapRemove(chunks, {d}), nextDoc)

\* delete_documents -> deleteDocuments({ document_ids }): validate the list,
\* find the documents, delete them (their chunks go with them); every error
\* is thrown.
DeleteDocuments ==
  \E document_ids \in SUBSET DocIds, fault \in {"none", "store", "store_delete"} :
    LET call == [NoCall EXCEPT !.tool = "delete_documents", !.document_ids = document_ids]
        found == document_ids \cap DOMAIN documents
    IN
    IF DocumentIdsInvalid(document_ids) THEN
      ToolFailed(call, ToolThrow("document_ids must be a non-empty array"), <<>>)
    ELSE IF fault = "store" THEN
      ToolFailed([call EXCEPT !.fault = fault], ToolThrow("Failed to find documents"),
                 <<"select">>)
    ELSE IF found = {} THEN
      ToolFailed(call, ToolThrow("No documents found with the provided IDs"), <<"select">>)
    ELSE IF fault = "store_delete" THEN
      ToolFailed([call EXCEPT !.fault = fault], ToolThrow("Failed to delete documents"),
                 <<"select", "delete">>)
    ELSE
      ToolDone(call, ToolReturn([Success EXCEPT !.count = Cardinality(found)]),
               <<"select", "delete">>,
               MapRemove(documents, found), MapRemove(chunks, found), nextDoc)

\* The tool layer alone, on either dispatch table, over a store that is empty
\* or holds one document.
InitTools == SessionInit({"express", "worker"}, {CredsOf("E")}) /\ StoreInit(InitialStores)

NextTools ==
  \/ UploadDocument
  \/ SearchChunks
  \/ GetFiles
  \/ GetDocument
  \/ DeleteDocument
  \/ DeleteDocuments

SpecTools == InitTools /\ [][NextTools]_vars

\* ------------------------------------------- concurrent calls on the store
\* Each store request of a tool call is one step; the calls of concurrent
\* requests interleave between their awaits.

\* document_id UUID REFERENCES documents(id): the store refuses a chunk row
\* whose document row does not exist (the insert returns an error).
InsertChunkUnchecked(docs, chs, id) ==
  MapSet(chs, id, (IF id \in DOMAIN chs THEN chs[id] ELSE 0) + 1)
InsertChunk(docs, chs, id) ==
  IF id \in DOMAIN docs
  THEN MapSet(chs, id, (IF id \in DOMAIN chs THEN chs[id] ELSE 0) + 1)
  ELSE chs
\* ON DELETE CASCADE: deleting document rows deletes their chunk rows.
DeleteCascade(chs, ids) == MapRemove(chs, ids)

StoreStep(c, call) ==
  /\ inflight' = [inflight EXCEPT ![c] = call]
  /\ UNCHANGED <<sessionVars, toolCall, toolResult, storeOps, rpcMatchCount,
                 storeBefore, scenario, splitVars, files>>

\* uploadDocument / uploadImage: .from('documents').insert(..).select().single()
UploadInsertRow(c) ==
  /\ inflight[c].pc = "idle"
  /\ nextDoc <= MaxDocs
  \* one file: DeleteFind chooses among the rows whatever their filenames are
  /\ \E tool \in {"upload_document", "upload_image"}, file_path \in {"/x/a.txt"},
        total \in 1..MaxChunks :
       LET id == StoreNewId(nextDoc) IN
       /\ documents' = InsertDocument(documents, id, basename(file_path))
       /\ nextDoc' = nextDoc + 1
       /\ StoreStep(c, [IdleCall EXCEPT !.tool = tool, !.pc = "chunks", !.ids = {id},
                                        !.left = total])
  /\ UNCHANGED <<chunks, deleted>>

\* One chunk: generateEmbedding, which may throw, then
\* .from('document_chunks').insert({ document_id: doc.id, .. }).
UploadInsertChunk(c) ==
  /\ inflight[c].pc = "chunks"
  /\ inflight[c].left > 0
  /\ \E embedded \in BOOLEAN, id \in inflight[c].ids :
       /\ chunks' = IF embedded THEN InsertChunk(documents, chunks, id) ELSE chunks
       /\ StoreStep(c, [inflight[c] EXCEPT !.left = @ - 1,
                                          !.refused = embedded /\ id \notin DOMAIN documents])
  /\ UNCHANGED <<documents, nextDoc, deleted>>

\* The upload returns its result.
UploadReturn(c) ==
  /\ inflight[c].pc = "chunks"
  /\ inflight[c].left = 0
  /\ StoreStep(c, IdleCall)
  /\ UNCHANGED <<documents, chunks, nextDoc, deleted>>

\* deleteDocument / deleteDocuments: the select that finds the rows to delete
\* ('Document not found' ends the call when there is none).
DeleteFind(c) ==
  /\ inflight[c].pc = "idle"
  /\ \E tool \in {"delete_document", "delete_documents"},
        ids \in (SUBSET DOMAIN documents) \ {{}} :
       /\ tool = "delete_document" => Cardinality(ids) = 1
       /\ StoreStep(c, [IdleCall EXCEPT !.tool = tool, !.pc = "delete", !.ids = ids])
  /\ UNCHANGED <<documents, chunks, nextDoc, deleted>>

\* .from('documents').delete().eq('id', document.id) / .in('id', document_ids)
DeleteRows(c) ==
  /\ inflight[c].pc = "delete"
  /\ documents' = MapRemove(documents, inflight[c].ids)
  /\ chunks' = DeleteCascade(chunks, inflight[c].ids)
  /\ deleted' = deleted \cup (inflight[c].ids \cap DOMAIN documents)
  /\ StoreStep(c, IdleCall)
  /\ UNCHANGED nextDoc

InitStore == SessionInit({"express"}, {CredsOf("E")}) /\ StoreInit(InitialStores)

NextStore ==
  \E c \in Calls :
    \/ UploadInsertRow(c)
    \/ UploadInsertChunk(c)
    \/ UploadReturn(c)
    \/ DeleteFind(c)
    \/ DeleteRows(c)

SpecStore == InitStore /\ [][NextStore]_vars

\* ------------------------------------------------------------- chunkText
\* A string is a sequence of characters; " " stands for every character that
\* \s matches.
Chars == {"a", "b", " "}
Whitespace == {" "}
Texts == UNION {[1..n -> Chars] : n \in 0..MaxLen}

\* text.split(/\s+/): the pieces between the maximal runs of whitespace; a
\* text that starts or ends with whitespace has an empty first or last piece,
\* and the empty text has one empty piece.
RECURSIVE SplitFrom(_, _, _, _)
SplitFrom(rest, piece, inRun, pieces) ==
  IF rest = <<>> THEN Append(pieces, piece)
  ELSE IF Head(rest) \in Whitespace THEN
    IF inRun THEN SplitFrom(Tail(rest), piece, TRUE, pieces)
    ELSE SplitFrom(Tail(rest), <<>>, TRUE, Append(pieces, piece))
  ELSE SplitFrom(Tail(rest), Append(piece, Head(rest)), FALSE, pieces)
split(str) == SplitFrom(str, <<>>, FALSE, <<>>)

\* words.slice(i, j)
slice(words, i, j) == SubSeq(words, i + 1, Min(j, Len(words)))
\* pieces.join(' ')
RECURSIVE join(_)
join(pieces) ==
  IF pieces = <<>> THEN <<>>
  ELSE IF Len(pieces) = 1 THEN pieces[1]
  ELSE pieces[1] \o <<" ">> \o join(Tail(pieces))
\* !chunk.trim()
IsBlank(str) == \A n \in 1..Len(str) : str[n] \in Whitespace

\* for (let i = 0; i < words.length; i += maxWords) { .. if (chunk.trim()) chunks.push(chunk) }
RECURSIVE ChunksFrom(_, _, _)
ChunksFrom(words, i, size) ==
  IF i >= Len(words) THEN <<>>
  ELSE LET chunk == join(slice(words, i, i + size)) IN
       (IF IsBlank(chunk) THEN <<>> ELSE <<chunk>>) \o ChunksFrom(words, i + size, size)
chunkText(str, size) == ChunksFrom(split(str), 0, size)

ChunkText ==
  /\ ~chunked
  /\ chunkList' = chunkText(text, maxWords)
  /\ chunked' = TRUE
  /\ UNCHANGED <<sessionVars, storeVars, text, maxWords, files>>

InitSplit ==
  /\ SessionInit({"express"}, {CredsOf("E")})
  /\ ToolInit({EmptyStore})
  /\ SplitInit(Texts, 1..MaxWords)
  /\ QueueInit

NextSplit == ChunkText

SpecSplit == InitSplit /\ [][NextSplit]_vars

\* ------------------------------------------------------------ FileUpload
\* The React component's queue.  addFiles and uploadFile contain no await:
\* appending the items (status 'pending'), marking each 'uploading' and
\* sending its XMLHttpRequest are one event handler, rendered as one update.
HttpStatuses == {200, 500}
Progresses == {50, 100}

QueueStep(f, item) ==
  /\ files' = [files EXCEPT ![f] = item]
  /\ UNCHANGED <<sessionVars, storeVars, splitVars>>

\* setFiles(prev => prev.map(f => f.id === fileItem.id ? change : f)): no item
\* is changed once removeFile has filtered it out.
SetFile(f, item) == IF files[f].status = "removed" THEN files[f] ELSE item

\* addFiles -> uploadFile: a synchronous exception (new FormData, xhr.open,
\* xhr.send) is caught and ends in status 'error' with error.message.
AddFiles(f) ==
  /\ files[f].status = "none"
  /\ \E threw \in BOOLEAN :
       QueueStep(f, IF threw
                    THEN [files[f] EXCEPT !.status = "error", !.error = "error.message"]
                    ELSE [files[f] EXCEPT !.status = "uploading", !.xhr = "sent"])

\* xhr.upload 'progress' listener
XhrProgress(f) ==
  /\ files[f].xhr = "sent"
  /\ \E progress \in Progresses :
       /\ progress > files[f].progress
       /\ QueueStep(f, SetFile(f, [files[f] EXCEPT !.progress = progress]))

\* xhr 'load' listener: status 200 marks the item 'success'; any other status
\* throws inside the listener, outside uploadFile's try/catch, which returned
\* when the request was sent: the exception changes no item.
XhrLoad(f) ==
  /\ files[f].xhr = "sent"
  /\ \E http \in HttpStatuses :
       LET done == [files[f] EXCEPT !.xhr = "done", !.http = http] IN
       QueueStep(f, IF http = 200
                    THEN [SetFile(f, [done EXCEPT !.status = "success", !.progress = 100])
                            EXCEPT !.xhr = "done", !.http = http]
                    ELSE done)

\* xhr 'error' listener
XhrError(f) ==
  /\ files[f].xhr = "sent"
  /\ LET done == [files[f] EXCEPT !.xhr = "done"] IN
     QueueStep(f, [SetFile(f, [done EXCEPT !.status = "error", !.error = "Upload failed"])
                     EXCEPT !.xhr = "done"])

\* removeFile(fileId): the item leaves the queue, its request goes on.
RemoveFile(f) ==
  /\ files[f].status \notin {"none", "removed"}
  /\ QueueStep(f, [files[f] EXCEPT !.status = "removed"])

InitUpload ==
  /\ SessionInit({"express"}, {CredsOf("E")})
  /\ ToolInit({EmptyStore})
  /\ SplitInit({<<>>}, {1})
  /\ QueueInit

NextUpload ==
  \E f \in Files :
    \/ AddFiles(f)
    \/ XhrProgress(f)
    \/ XhrLoad(f)
    \/ XhrError(f)
    \/ RemoveFile(f)

SpecUpload == InitUpload /\ [][NextUpload]_vars

\* Every request that was sent completes: the browser fires its 'load' or its
\* 'error' event.
RequestCompletes(f) == WF_vars(XhrLoad(f) \/ XhrError(f))
SpecUploadFair == SpecUpload /\ \A f \in Files : RequestCompletes(f)

\* ================================================================ claims
Fields == {"supabaseUrl", "supabaseKey", "openaiKey"}
HeaderName(f) ==
  CASE f = "supabaseUrl" -> "x-supabase-url"
    [] f = "supabaseKey" -> "x-supabase-key"
    [] f = "openaiKey" -> "x-openai-key"
\* The fields request r finds in neither source.
AbsentFieldsOf(headers) == {f \in Fields : Falsy(headers[f]) /\ Falsy(env[f])}
AbsentFields(r) == AbsentFieldsOf(req[r].headers)
SeqRange(q) == {q[i] : i \in 1..Len(q)}
Active(r) == pc[r] # "idle"
\* Request r passes credential validation (Express has none).
CredsResolve(r) == target = "express" \/ AbsentFields(r) = {}
\* Request r was handed to the transport stored under its session id, and its
\* handler made no session id and no transport of its own.
Forwarded(r) ==
  /\ MapHas(transports, req[r].sessionId)
  /\ local[r].transport = transports[req[r].sessionId]
  /\ local[r].newSessionId = Absent
  /\ pc[r] = "reuse_handle" \/ (pc[r] = "done" /\ outcome[r] # "none")

C2_UnknownIdIs400 ==
  /\ \A r \in Reqs :
       (Active(r) /\ Truthy(req[r].sessionId) /\ ~local[r].wasRegistered) =>
         /\ pc[r] = "done"
         /\ resp[r].status = 400
         /\ local[r].newSessionId = Absent /\ local[r].transport = 0
  /\ DOMAIN transports \subseteq generated

\* C3 (as stated): a request with no session id and a method other than
\* initialize is always answered 400 with an error message and creates no session.
C3_NoSessionNonInitIs400 ==
  \A r \in Reqs :
    (Active(r) /\ req[r].sessionId = Absent /\ ~isInitializeRequest(req[r].method)) =>
      /\ pc[r] = "done"
      /\ resp[r].status = 400 /\ resp[r].body = "invalid"
      /\ local[r].newSessionId = Absent /\ local[r].transport = 0

\* C3 (amended): a request with no session id and a method other than
\* initialize never creates a session; it is answered 400 with an error
\* message when its credentials resolve (always, in Express), and 401 when
\* they do not.
C3_NoSessionNonInitIs400Or401 ==
  \A r \in Reqs :
    (Active(r) /\ req[r].sessionId = Absent /\ ~isInitializeRequest(req[r].method)) =>
      /\ pc[r] = "done"
      /\ local[r].newSessionId = Absent /\ local[r].transport = 0
      /\ IF CredsResolve(r) THEN resp[r].status = 400 /\ resp[r].body = "invalid"
         ELSE resp[r].status = 401

\* C3 witness: the worker answered 400 to a tools/call that carried credentials
\* and no session id.
C3_Witness ==
  \E r \in Reqs :
    /\ target = "worker"
    /\ pc[r] = "done" /\ resp[r].status = 400
    /\ req[r].sessionId = Absent /\ req[r].method = "tools/call"
    /\ req[r].headers = CredsOf("A")

\* C10: whenever a credential field is absent or empty in both the headers
\* and the environment, the request is answered 401 and the missing list
\* names exactly the absent fields, each once; when all three fields resolve
\* the request is never answered 401.
C10_MissingNamesEveryField ==
  \A r \in Reqs :
    Active(r) =>
      IF AbsentFields(r) # {}
      THEN /\ pc[r] = "done" /\ resp[r].status = 401
           /\ SeqRange(resp[r].missing) = {HeaderName(f) : f \in AbsentFields(r)}
           /\ Len(resp[r].missing) = Cardinality(AbsentFields(r))
      ELSE resp[r].status # 401 /\ resp[r].missing = <<>>

\* C10 witness: a request whose headers supply the store URL only, under an
\* environment that supplies nothing, was answered 401 naming two fields.
C10_Witness ==
  \E r \in Reqs :
    /\ resp[r].status = 401
    /\ Len(resp[r].missing) = 2
    /\ Truthy(req[r].headers.supabaseUrl)
    /\ env = NoCreds

\* The session a handler's transport.handleRequest call works on.
Handling(r) == pc[r] \in {"reuse_handle", "create_handle"}
SessionOf(r) == IF pc[r] = "create_handle" THEN local[r].newSessionId ELSE req[r].sessionId
Creating(r) == pc[r] \in {"connect", "create_handle"} \/ (pc[r] = "done" /\ local[r].newSessionId # Absent)

\* C4: initialize requests handled concurrently get pairwise distinct session
\* ids and transports; as many ids are registered by handlers that returned
\* normally as there were such handlers; and every registry entry holds the
\* transport made together with its id, never another creation's.
C4_DistinctSessions ==
  /\ \A r1, r2 \in Reqs :
       (r1 # r2 /\ Creating(r1) /\ Creating(r2)) =>
         /\ local[r1].newSessionId # local[r2].newSessionId
         /\ local[r1].transport # local[r2].transport
  /\ nInitOk = Cardinality(completed)
  /\ completed \subseteq DOMAIN transports
  /\ \A id \in DOMAIN transports : transports[id] = issued[id]
  /\ \A r \in Reqs :
       (pc[r] = "done" /\ local[r].newSessionId # Absent /\ outcome[r] # "throw") =>
         /\ MapHas(transports, local[r].newSessionId)
         /\ transports[local[r].newSessionId] = local[r].transport

\* C4 witness: two initialize handlers that were in flight together (each
\* created its session while the other was suspended) have both returned
\* normally, and the registry holds two entries.
C4_Witness ==
  /\ \A r \in Reqs : pc[r] = "done" /\ local[r].newSessionId # Absent /\ outcome[r] = "wrote"
  /\ Cardinality(DOMAIN transports) = MaxReq

\* C5 (as stated): once a session id has been sent to a client in an
\* Mcp-Session-Id header, the registry holds its transport, and no request
\* that carries it is answered 400.
C5_ExposedIdIsRegistered ==
  /\ exposed \subseteq DOMAIN transports
  /\ \A r \in Reqs : (Active(r) /\ local[r].sawExposed) => resp[r].status # 400

\* C6 (as stated): two requests bearing the same session id are never being
\* handled on its transport at the same time.
C6_SerializedPerSession ==
  \A r1, r2 \in Reqs :
    (r1 # r2 /\ Handling(r1) /\ Handling(r2)) => SessionOf(r1) # SessionOf(r2)

\* C7 (as stated): a tools/call that carries no credential header and the id
\* of a session an initialize response returned is not answered 401, and its
\* tool handler runs with the credentials the session was created with.
C7_ToolGetsCreationCredentials ==
  \A r \in Reqs :
    ( /\ target = "worker"
      /\ pc[r] = "done"
      /\ req[r].method = "tools/call"
      /\ req[r].headers = NoCreds
      /\ local[r].wasRegistered /\ local[r].sawExposed ) =>
      /\ resp[r].status # 401
      /\ outcome[r] = "wrote" => toolCreds[r] = createdWith[req[r].sessionId]

\* C8 (as stated): the credentials stored for a registered session are the
\* credentials it was created with, in every state.
C8_CredentialsImmutable ==
  \A id \in DOMAIN transports :
    MapHas(sessionCredentials, id) => sessionCredentials[id] = createdWith[id]

\* Handler r starts in this step, with a request that passes credential
\* validation and carries session id `id`.
Validated(r, id) ==
  /\ target = "worker"
  /\ pc[r] = "idle" /\ pc'[r] # "idle"
  /\ req'[r].sessionId = id
  /\ AbsentFieldsOf(req'[r].headers) = {}
\* Handler r registers the session `id` it created in this step.
Registers(r, id) ==
  /\ pc[r] = "connect" /\ pc'[r] = "create_handle"
  /\ local[r].newSessionId = id

\* C8 (amended): the credentials stored for a session are last-write-wins:
\* every request that carries the session's id and passes credential
\* validation overwrites them with its own resolved triple (header value
\* over environment value), and nothing else changes them after the creating
\* handler stored its triple: not a request answered 401, not a request that
\* carries another id or none.  No entry is ever removed.
C8_CredentialsLastWriteWins ==
  [][ /\ \A r \in Reqs, id \in SessionIds :
           Validated(r, id) =>
             /\ MapHas(sessionCredentials', id)
             /\ sessionCredentials'[id] = ResolveCredentials(req'[r].headers, env)
      /\ \A id \in DOMAIN sessionCredentials' :
           (~MapHas(sessionCredentials, id) \/ sessionCredentials'[id] # sessionCredentials[id]) =>
             \E r \in Reqs :
               \/ Validated(r, id)
                    /\ sessionCredentials'[id] = ResolveCredentials(req'[r].headers, env)
               \/ Registers(r, id) /\ sessionCredentials'[id] = createdWith[id]
      /\ DOMAIN sessionCredentials \subseteq DOMAIN sessionCredentials'
    ]_vars

\* C8 witness: a registered session whose stored credentials are no longer
\* the ones it was created with.
C8_Witness ==
  \E id \in DOMAIN transports :
    /\ MapHas(sessionCredentials, id)
    /\ createdWith[id] = CredsOf("A")
    /\ sessionCredentials[id] = CredsOf("E")

\* C9: a registered session id stays registered, with the same transport, in
\* every later state: no step removes an entry or replaces a transport.
C9_RegistryAppendOnly ==
  [][ \A id \in DOMAIN transports :
        MapHas(transports', id) /\ transports'[id] = transports[id] ]_vars

\* C9 witness: the registry holds two sessions, the first of them since
\* before the second was created, and requests were answered 400 and 500
\* meanwhile.
C9_Witness ==
  /\ Cardinality(DOMAIN transports) = 2
  /\ \E r \in Reqs : pc[r] = "done" /\ resp[r].status = 400 /\ local[r].wasRegistered = FALSE
                      /\ MapHas(transports, req[r].sessionId)

\* C11: for each of the three credential fields on its own, the credential
\* the worker handler resolves is the header's value whenever the header
\* supplies one, whatever the environment holds for that field, and the
\* environment's value only when the header supplies none.
C11_HeaderOverEnvironment ==
  \A r \in Reqs :
    (Active(r) /\ target = "worker") =>
      \A f \in Fields :
        local[r].credentials[f] =
          IF Truthy(req[r].headers[f]) THEN req[r].headers[f] ELSE env[f]

\* C11 witness: the header and the environment both supply the store URL and
\* the header's value was resolved, while the store key, which only the
\* environment supplies, resolved to the environment's value.
C11_Witness ==
  \E r \in Reqs :
    /\ Active(r)
    /\ req[r].headers.supabaseUrl = "h" /\ env.supabaseUrl = "e"
    /\ local[r].credentials.supabaseUrl = "h"
    /\ req[r].headers.supabaseKey = Absent /\ env.supabaseKey = "e"
    /\ local[r].credentials.supabaseKey = "e"

\* Handler r starts in this step and answers 401: its credentials do not resolve.
Rejected(r) ==
  /\ target = "worker"
  /\ pc[r] = "idle" /\ pc'[r] = "done"
  /\ resp'[r].status = 401

\* C12: a request that fails credential resolution changes nothing shared:
\* the transport registry, the stored credentials of every session (the one
\* named in its own session-id header included) and every transport's extra
\* are the same after it as before, and it makes no session id.
C12_RejectedRequestChangesNothing ==
  [][ \A r \in Reqs :
        Rejected(r) =>
          /\ transports' = transports
          /\ sessionCredentials' = sessionCredentials
          /\ extra' = extra
          /\ generated' = generated ]_vars

\* C12 witness: a request naming a registered session that has stored
\* credentials was answered 401, and the session's credentials are still there.
C12_Witness ==
  \E r \in Reqs :
    /\ pc[r] = "done" /\ resp[r].status = 401
    /\ local[r].wasRegistered
    /\ MapHas(sessionCredentials, req[r].sessionId)
    /\ sessionCredentials[req[r].sessionId] = CredsOf("A")

\* The credentials supplied for session id: the ones it was created with, and
\* the ones requests bearing its id stored for it.
SuppliedFor(id) ==
  {createdWith[id]}
    \cup (IF MapHas(sessionCredentials, id) THEN {sessionCredentials[id]} ELSE {})
    \cup (IF MapHas(transports, id) /\ MapHas(extra, transports[id])
          THEN {extra[transports[id]]} ELSE {})

\* C13 (as stated): when two sessions were created with different
\* credentials, a tool call made on one of them runs with credentials
\* supplied for that session (at its creation, by the call itself, or by a
\* request bearing its id), never with anything else.
C13_TenantIsolation ==
  \A r \in Reqs :
    ( /\ target = "worker"
      /\ pc[r] = "done" /\ outcome[r] = "wrote"
      /\ req[r].method = "tools/call"
      /\ local[r].wasRegistered /\ local[r].sawExposed
      /\ \E b \in DOMAIN transports :
            b # req[r].sessionId /\ createdWith[b] # createdWith[req[r].sessionId] ) =>
      toolCreds[r] \in SuppliedFor(req[r].sessionId) \cup {local[r].credentials}

\* Bodies that are JSON text: the transport's object, a JSON string literal,
\* and the error objects of the 400, 401 and 500 answers.
WellFormedJson(body) == body \in {"transport", "quoted", "invalid", "missing", "error"}

\* C14 (as stated): every request that has been answered, on every path, got
\* a response whose body is well-formed JSON, also when the transport wrote
\* nothing before handleRequest returned.
C14_AlwaysJsonBody ==
  \A r \in Reqs : pc[r] = "done" => WellFormedJson(resp[r].body)

\* C15 (as stated): the response to a continuation request has the status and
\* the body the transport wrote and carries the request's session id in
\* Mcp-Session-Id; the response to an initialize request carries the new id.
C15_RelaysEnvelope ==
  \A r \in Reqs :
    (target = "worker" /\ pc[r] = "done" /\ outcome[r] = "wrote") =>
      IF local[r].newSessionId = Absent
      THEN /\ resp[r].status = resp[r].written
           /\ resp[r].body = "transport"
           /\ resp[r].sessionHeader = req[r].sessionId
      ELSE resp[r].sessionHeader = local[r].newSessionId

\* The last tool call left the store's tables as they were.
StoreUntouched ==
  /\ documents = storeBefore.documents
  /\ chunks = storeBefore.chunks
\* The tool result is a tool error: isError with the text "Error: <message>",
\* returned by the handler, no exception having left it.
IsToolError ==
  /\ toolResult.isError
  /\ toolResult.prefix = "Error: " /\ toolResult.message # ""
  /\ ~toolResult.escaped

\* C16 (as stated): whenever a collaborator call of a tool fails (the store,
\* the embedding service, the file read), the tool result is a tool error
\* with isError true and the text "Error: <message>".
C16_CollaboratorFailureIsToolError ==
  toolCall.fault # "none" => IsToolError

\* The messages of a delete_document call that names no stored document: the
\* not-found error of deleteDocument, and its argument error, which is what the
\* shared definition's handler gets for every document_id.
NotFoundStyle == {"Document not found", "Either id or filename must be provided"}

\* C17: delete_document called with an id that matches no document, the store
\* answering normally, returns a tool error of the not-found / argument-error
\* kind through the handler's normal return, and deletes no document and no chunk.
C17_DeleteUnknownIdIsToolError ==
  ( /\ toolCall.tool = "delete_document"
    /\ toolCall.fault = "none"
    /\ Truthy(toolCall.id)
    /\ ~MapHas(storeBefore.documents, toolCall.id) ) =>
    /\ IsToolError
    /\ toolResult.message \in NotFoundStyle
    /\ target = "express" => toolResult.message = "Document not found"
    /\ StoreUntouched

\* C17 witness: the store holds a document, delete_document was called with
\* another id, and the result is the "Document not found" tool error.
C17_Witness ==
  /\ toolCall.tool = "delete_document"
  /\ toolCall.id = "d2" /\ toolCall.filename = Absent
  /\ DOMAIN documents = {"d1"}
  /\ toolResult.isError /\ toolResult.message = "Document not found"

\* C18: delete_documents called with an empty document_ids list returns the
\* argument tool error without sending any request to the store, and the
\* stored documents and chunks are unchanged.
C18_EmptyListRejectedBeforeStore ==
  (toolCall.tool = "delete_documents" /\ toolCall.document_ids = {}) =>
    /\ IsToolError
    /\ toolResult.message = "document_ids must be a non-empty array"
    /\ storeOps = <<>>
    /\ StoreUntouched

\* C18 witness: the store holds a document and delete_documents was called
\* with an empty list.
C18_Witness ==
  /\ toolCall.tool = "delete_documents" /\ toolCall.document_ids = {}
  /\ DOMAIN documents # {}
  /\ toolResult.isError

\* The last call supplied both of filename and id, or neither.
NotExactlyOne == Truthy(toolCall.filename) = Truthy(toolCall.id)

\* C19 (as stated): a get_document or delete_document call that supplies both
\* filename and id, or neither, is answered with an error (a tool error, or a
\* success: false result): it returns no document and deletes none.
C19_ExactlyOneOfFilenameAndId ==
  ( /\ target = "express"
    /\ toolCall.tool \in {"get_document", "delete_document"}
    /\ NotExactlyOne ) =>
    /\ toolResult.isError \/ toolResult.payload.success = "false"
    /\ toolResult.payload.id = Absent
    /\ StoreUntouched

C21_MatchCountForwarded ==
  (toolCall.tool = "search_chunks" /\ toolCall.fault # "embedding") =>
    /\ storeOps = <<"rpc">>
    /\ toolCall.match_count = {} => rpcMatchCount = {5}
    /\ toolCall.match_count # {} => rpcMatchCount = toolCall.match_count
    /\ \A n \in rpcMatchCount : toolResult.payload.count <= n

\* C21 witness: a search with match_count 1 over a store holding two chunks
\* returned one chunk, the store having been sent match_count 1.
C21_Witness ==
  /\ toolCall.tool = "search_chunks" /\ toolCall.match_count = {1}
  /\ SumOver(chunks, DOMAIN chunks) = 2
  /\ rpcMatchCount = {1}
  /\ toolResult.payload.success = "true" /\ toolResult.payload.count = 1

\* C22: in every successful upload_document result chunks_created is the
\* number of chunks stored for the new document and total_chunks is the number
\* of chunks the splitter returned.
C22_ChunkCountsReported ==
  (toolCall.tool = "upload_document" /\ toolResult.payload.success = "true") =>
    /\ toolResult.payload.chunks_created = chunks[toolResult.payload.id]
    /\ toolResult.payload.total_chunks = toolCall.split

\* C29: an upload_document call that returned success false left no document
\* row and no chunk in the store.
C29_FailedUploadStoresNothing ==
  (toolCall.tool = "upload_document" /\ toolResult.payload.success = "false") =>
    StoreUntouched

\* C23: whatever the interleaving of uploads and deletions, every stored chunk
\* belongs to a document row that exists, and no chunk is stored for a
\* document that was deleted.
C23_ChunksBelongToDocuments ==
  /\ \A id \in DOMAIN chunks : chunks[id] > 0 => id \in DOMAIN documents
  /\ \A id \in deleted : id \notin DOMAIN documents /\ id \notin DOMAIN chunks

\* C23 witness: an upload tried to insert a chunk after its document row had
\* been deleted by a concurrent call, and the store refused it.
C23_Witness ==
  \E c \in Calls :
    /\ inflight[c].tool \in {"upload_document", "upload_image"}
    /\ inflight[c].refused
    /\ inflight[c].ids \subseteq deleted

\* The words of a string: its pieces between whitespace that are not empty.
WordsOf(str) == SelectSeq(split(str), LAMBDA w : w # <<>>)
RECURSIVE WordsOfAll(_)
WordsOfAll(strs) == IF strs = <<>> THEN <<>> ELSE WordsOf(Head(strs)) \o WordsOfAll(Tail(strs))

\* C24: every chunk chunkText returns is non-blank and has at most maxWords
\* words, every chunk but the last has exactly maxWords words, and the words of
\* the chunks in order are the words of the text in order.
C24_FixedSizeWordSplitter ==
  chunked =>
    /\ \A n \in 1..Len(chunkList) :
         /\ ~IsBlank(chunkList[n])
         /\ Len(WordsOf(chunkList[n])) <= maxWords
         /\ n < Len(chunkList) => Len(WordsOf(chunkList[n])) = maxWords
    /\ WordsOfAll(chunkList) = WordsOf(text)

\* C25: every queued file that is uploading eventually has status success or
\* error (or has been removed from the queue by the user), given that its
\* request completes.
C25_UploadEventuallySettles ==
  \A f \in Files :
    (files[f].status = "uploading") ~> (files[f].status \in {"success", "error", "removed"})

\* C26: an initialize request whose transport.handleRequest threw, answered
\* 500, leaves no entry under its new session id in the transport registry.
C26_FailedInitializeLeavesNoEntry ==
  \A r \in Reqs :
    (/\ pc[r] = "done"
     /\ outcome[r] = "throw"
     /\ Truthy(local[r].newSessionId)) =>
      local[r].newSessionId \notin DOMAIN transports

\* C27: in the worker, the credential map and the transport map have the same
\* keys.
C27_SameKeySets ==
  target = "worker" => DOMAIN sessionCredentials = DOMAIN transports

C30_SamePairSameDocument ==
  (/\ toolCall.tool = "delete_document"
   /\ target = "express"
   /\ Truthy(toolCall.filename) /\ Truthy(toolCall.id)
   /\ toolCall.id \in DOMAIN storeBefore.documents
   /\ \E d \in DOMAIN storeBefore.documents \ {toolCall.id} :
        storeBefore.documents[d] = toolCall.filename
   /\ ~toolResult.isError) =>
    toolResult.payload.id
      \in GetDocumentMatches(storeBefore.documents, toolCall.filename, toolCall.id)

====
